---- MODULE Spec2Model ----
(***************************************************************************)
(* A model of font-previewer.py (class FontPreviewer): the state of the    *)
(* window that the handlers read and write, and one action per handler     *)
(* (a click in the file list, an edit of the size field, a toggle of the   *)
(* Bold and Italic boxes).  Text is modelled as sequences of one-character *)
(* strings so that str.lower, str.endswith, os.path.splitext and int() are *)
(* computed rather than assumed.                                           *)
(***************************************************************************)
EXTENDS Integers, Sequences, FiniteSets, TLC

(***************************************************************************)
(* Bounds of the model.                                                    *)
(***************************************************************************)
\* The file list is no longer clicked once QFontDatabase holds this many
\* application fonts (every successful addApplicationFont adds one).
MaxAppFonts == 2

(***************************************************************************)
(* Text helpers: str.lower, str.endswith, os.path.splitext, int.           *)
(***************************************************************************)
UpperToLower ==
  [c \in {"A", "B", "F", "I", "O", "P", "T", "Z"} |->
     CASE c = "A" -> "a" [] c = "B" -> "b" [] c = "F" -> "f" [] c = "I" -> "i"
       [] c = "O" -> "o" [] c = "P" -> "p" [] c = "T" -> "t" [] c = "Z" -> "z"]

\* str.lower()
lower(s) ==
  [i \in 1..Len(s) |-> IF s[i] \in DOMAIN UpperToLower THEN UpperToLower[s[i]] ELSE s[i]]

\* str.endswith(suffix) for one suffix
endswith1(s, suffix) ==
  /\ Len(suffix) <= Len(s)
  /\ SubSeq(s, Len(s) - Len(suffix) + 1, Len(s)) = suffix

\* str.endswith(tuple of suffixes)
endswith(s, suffixes) == \E k \in 1..Len(suffixes) : endswith1(s, suffixes[k])

FONT_EXTS == << <<".", "t", "t", "f">>, <<".", "o", "t", "f">> >>
ARCHIVE_EXT == <<".", "z", "i", "p">>

\* os.path.splitext(name)[1]: from the last dot on, empty when there is no dot
\* or the only dots lead the name.
RECURSIVE lastDot(_, _)
lastDot(s, i) == IF i = 0 THEN 0 ELSE IF s[i] = "." THEN i ELSE lastDot(s, i - 1)

RECURSIVE leadingDots(_, _)
leadingDots(s, i) ==
  IF i > Len(s) \/ s[i] # "." THEN i - 1 ELSE leadingDots(s, i + 1)

splitext1(s) ==
  LET d == lastDot(s, Len(s))
  IN IF d > leadingDots(s, 1) THEN SubSeq(s, d, Len(s)) ELSE <<>>

Digit == [c \in {"0", "1", "2", "3", "4", "5", "6", "7", "8", "9"} |->
            CASE c = "0" -> 0 [] c = "1" -> 1 [] c = "2" -> 2 [] c = "3" -> 3
              [] c = "4" -> 4 [] c = "5" -> 5 [] c = "6" -> 6 [] c = "7" -> 7
              [] c = "8" -> 8 [] c = "9" -> 9]

RECURSIVE digitsValue(_, _)
digitsValue(s, acc) ==
  IF s = <<>> THEN acc ELSE digitsValue(Tail(s), 10 * acc + Digit[Head(s)])

allDigits(s) == s # <<>> /\ \A i \in 1..Len(s) : s[i] \in DOMAIN Digit

\* int(text): [ok |-> FALSE] stands for the ValueError int() raises.
int(s) ==
  IF s # <<>> /\ Head(s) \in {"-", "+"}
  THEN IF allDigits(Tail(s))
       THEN [ok |-> TRUE,
             val |-> IF Head(s) = "-" THEN 0 - digitsValue(Tail(s), 0)
                                      ELSE digitsValue(Tail(s), 0)]
       ELSE [ok |-> FALSE, val |-> 0]
  ELSE IF allDigits(s) THEN [ok |-> TRUE, val |-> digitsValue(s, 0)]
       ELSE [ok |-> FALSE, val |-> 0]

(***************************************************************************)
(* Qt values: fonts, and the coverage QFontMetrics.inFontUcs4 reports.     *)
(***************************************************************************)
\* QFont(family, pointSize)
QFont(family, pointSize) ==
  [family |-> family, pointSize |-> pointSize, bold |-> FALSE, italic |-> FALSE]

\* QApplication.font(): the platform's default application font.
QApplication_font == QFont("Sans", 9)

\* The code points each font family maps to a glyph: the default font has
\* Latin-1, Alfa has ASCII and every second code point above it, Zeta (a
\* symbol font) has nothing in the previewed ranges.
inFontUcs4(font, code) ==
  CASE font.family = "Sans" -> code \in 32..255
    [] font.family = "Alfa" -> code \in 32..126 \/ (code > 126 /\ code % 2 = 0)
    [] OTHER -> FALSE

(***************************************************************************)
(* render_preview.  The widgets it adds are a function of the font alone,  *)
(* so the layout is kept as the list of the passes that filled it since it *)
(* was last emptied, each pass being the font it ran with; widgets(layout) *)
(* is the list of the layout's widgets, in the order of the addWidget      *)
(* calls.                                                                  *)
(***************************************************************************)
ASCII_RANGE == [start |-> 32, stop |-> 127]
EXTENDED_RANGE == [start |-> 127, stop |-> 1025]
len(range) == range.stop - range.start
cols == 10

Widget(kind, text, code, font, row, col, rowSpan, colSpan) ==
  [kind |-> kind, text |-> text, code |-> code, font |-> font,
   row |-> row, col |-> col, rowSpan |-> rowSpan, colSpan |-> colSpan]

ref_font == QFont(QApplication_font.family, 14)

\* lbl_ref / lbl_ref_o: QLabel(f"{ch} ({code})") in the reference font
lbl_ref(code, r, c) == Widget("ref", "ch (code)", code, ref_font, r, c, 1, 1)

\* lbl_gly with the inFontUcs4 test left out
lbl_gly_untested(font, code, r, c) == Widget("gly", "ch", code, font, r + 1, c, 1, 1)

\* lbl_gly / lbl_gly_o: the glyph in the current font if the font has it, an
\* empty label (in the widget's default font) if not; placed in row r + 1
lbl_gly(font, code, r, c) ==
  IF inFontUcs4(font, code)
  THEN Widget("gly", "ch", code, font, r + 1, c, 1, 1)
  ELSE Widget("gly", "", code, QApplication_font, r + 1, c, 1, 1)

\* label_row without the doubling that makes room for the glyph rows
label_row_single(base, idx) == base + (idx \div cols)

\* the row of the label of the idx-th code point of a block starting at `base`
label_row(base, idx) == base + (idx \div cols) * 2

\* the column of the idx-th code point of a block
label_col(idx) == idx % cols

\* one loop of render_preview: two widgets per code point of `range`
block(font, range, base) ==
  [k \in 1..(2 * len(range)) |->
     LET idx  == (k - 1) \div 2
         code == range.start + idx
         r    == label_row(base, idx)
         c    == label_col(idx)
     IN IF k % 2 = 1 THEN lbl_ref(code, r, c) ELSE lbl_gly(font, code, r, c)]

sep_row == ((len(ASCII_RANGE) + cols - 1) \div cols) * 2

sep == Widget("sep", "Other Unicode", 0, QApplication_font, sep_row, 0, 1, cols)

\* the widgets one pass of render_preview adds with currentFont = font
added_widgets(font) ==
  block(font, ASCII_RANGE, 0) \o <<sep>> \o block(font, EXTENDED_RANGE, sep_row + 1)

\* the layout after the loop that takes every widget out of it
take_all(layout) == <<>>

\* the layout after render_preview() with currentFont = font: the old widgets
\* are taken out, then the three groups are added
render_preview(layout, font) == Append(take_all(layout), font)

\* the widgets of a layout
RECURSIVE widgets(_)
widgets(layout) ==
  IF layout = <<>> THEN <<>>
  ELSE added_widgets(Head(layout)) \o widgets(Tail(layout))

(***************************************************************************)
(* The folder on disk.  A file's content says whether zipfile can open it  *)
(* (isZip, with its entries in listing order) and whether                  *)
(* QFontDatabase.addApplicationFont can parse it (isFont, with the         *)
(* families applicationFontFamilies then reports).                         *)
(***************************************************************************)
Content(isZip, entries, isFont, fams) ==
  [isZip |-> isZip, entries |-> entries, isFont |-> isFont, fams |-> fams]

Junk     == Content(FALSE, <<>>, FALSE, <<>>)
AlfaFont == Content(FALSE, <<>>, TRUE, <<"Alfa", "Alfa Display">>)
ZetaFont == Content(FALSE, <<>>, TRUE, <<"Zeta">>)
NoFamily == Content(FALSE, <<>>, TRUE, <<>>)

Entry(name, data) == [name |-> name, data |-> data]

\* p.ZIP: a text file, then z.OTF, then a.ttf
PackZip ==
  Content(TRUE,
          << Entry(<<"i", ".", "t", "x", "t">>, Junk),
             Entry(<<"z", ".", "O", "T", "F">>, ZetaFont),
             Entry(<<"a", ".", "t", "t", "f">>, AlfaFont) >>,
          FALSE, <<>>)

\* e.zip: a good archive without a font
EmptyZip == Content(TRUE, << Entry(<<"i", ".", "t", "x", "t">>, Junk) >>, FALSE, <<>>)

\* os.listdir(currentFolder), with each file's content
Folder ==
  { Entry(<<"a", ".", "t", "t", "f">>, AlfaFont),
    Entry(<<"b", ".", "O", "T", "F">>, Junk),
    Entry(<<"n", ".", "t", "t", "f">>, NoFamily),
    Entry(<<"p", ".", "Z", "I", "P">>, PackZip),
    Entry(<<"e", ".", "z", "i", "p">>, EmptyZip),
    Entry(<<"x", ".", "z", "i", "p">>, Junk),
    Entry(<<"i", ".", "t", "x", "t">>, Junk) }

\* load_folder: the entries of the folder that get an item in fileList
fileList ==
  { f \in Folder : endswith(lower(f.name), FONT_EXTS)
                     \/ endswith1(lower(f.name), ARCHIVE_EXT) }

\* The texts the size field holds when update_font_settings reads it.  The
\* field's QIntValidator(1, 500) is left out: the handler is taken with every
\* text that may reach it ("0" and "" do, through the check boxes' signals,
\* whenever the field holds them), which is the case the claims about the
\* handler's own tests are about.
SizeTexts == { <<"0">>, <<"-", "5">>, <<"5", "0", "0">>, <<"5", "0", "1">>, <<>> }

(***************************************************************************)
(* The state of the window.                                                *)
(***************************************************************************)
VARIABLES
  sizeEdit,         \* sizeEdit.text()
  boldCheck,        \* boldCheck.isChecked()
  italicCheck,      \* italicCheck.isChecked()
  currentFont,      \* self.currentFont
  currentFontSize,  \* self.currentFontSize
  previewLayout,    \* self.previewLayout: the passes that filled it (see widgets)
  textEditFont,     \* textEdit.font()
  appFonts,         \* the ids of the application fonts QFontDatabase holds
  tempFiles,        \* the files tempfile.NamedTemporaryFile created, still on disk
  last              \* what the last handler did (history, not program state)

vars == <<sizeEdit, boldCheck, italicCheck, currentFont, currentFontSize,
          previewLayout, textEditFont, appFonts, tempFiles, last>>

NoData == Content(FALSE, <<>>, FALSE, <<"(none)">>)

\* message: the text of the message box the handler showed ("" if none);
\* loadCalled, loadData: whether load_font was called, and on which content;
\* rendered: whether render_preview ran.
Did(message, loadCalled, loadData, rendered) ==
  [message |-> message, loadCalled |-> loadCalled, loadData |-> loadData,
   rendered |-> rendered]

\* FontPreviewer.__init__
Init ==
  /\ sizeEdit = <<"4", "6">>
  /\ boldCheck = FALSE
  /\ italicCheck = FALSE
  /\ currentFont = QApplication_font
  /\ currentFontSize = 44
  /\ previewLayout = <<>>
  /\ textEditFont = QApplication_font
  /\ appFonts = {}
  /\ tempFiles = <<>>
  /\ last = Did("", FALSE, NoData, FALSE)

(***************************************************************************)
(* update_font_settings and apply_style_flags.                             *)
(***************************************************************************)
\* apply_style_flags on a font
apply_style_flags(font, bold, italic) ==
  [font EXCEPT !.bold = bold, !.italic = italic]

\* new_font_size without the test sz > 0
new_font_size_unchecked(text, size) ==
  LET sz == int(text)
  IN IF sz.ok THEN sz.val ELSE size

\* new_font_size with the validator's upper bound repeated in the test
new_font_size_clamped(text, size) ==
  LET sz == int(text)
  IN IF sz.ok /\ sz.val > 0 /\ sz.val <= 500 THEN sz.val ELSE size

\* the try block of update_font_settings: the value of currentFontSize after it
new_font_size(text, size) ==
  LET sz == int(text)
  IN IF sz.ok /\ sz.val > 0 THEN sz.val ELSE size

\* QFont.setPointSize
setPointSize(font, size) == [font EXCEPT !.pointSize = size]

\* update_font_settings that records the controls but renders only once a
\* font has been loaded
update_font_settings_font_only(text, bold, italic) ==
  LET size == new_font_size(text, currentFontSize)
      font == setPointSize(apply_style_flags(currentFont, bold, italic), size)
      none == currentFont.family = QApplication_font.family
  IN /\ currentFontSize' = size
     /\ currentFont' = font
     /\ previewLayout' = IF none THEN previewLayout
                                  ELSE render_preview(previewLayout, font)
     /\ textEditFont' = font
     /\ last' = Did("", FALSE, NoData, ~none)
     /\ UNCHANGED <<appFonts, tempFiles>>

\* update_font_settings, the slot of sizeEdit.editingFinished and of both
\* stateChanged signals, run with the controls showing text, bold and italic
update_font_settings(text, bold, italic) ==
  LET size == new_font_size(text, currentFontSize)
      font == setPointSize(apply_style_flags(currentFont, bold, italic), size)
  IN /\ currentFontSize' = size
     /\ currentFont' = font
     /\ previewLayout' = render_preview(previewLayout, font)
     /\ textEditFont' = font
     /\ last' = Did("", FALSE, NoData, TRUE)
     /\ UNCHANGED <<appFonts, tempFiles>>

\* the size field is given a text and editing finishes
sizeEdit_editingFinished(text) ==
  /\ sizeEdit' = text
  /\ UNCHANGED <<boldCheck, italicCheck>>
  /\ update_font_settings(text, boldCheck, italicCheck)

\* the Bold box is toggled
boldCheck_stateChanged ==
  /\ boldCheck' = ~boldCheck
  /\ UNCHANGED <<sizeEdit, italicCheck>>
  /\ update_font_settings(sizeEdit, ~boldCheck, italicCheck)

\* the Italic box is toggled
italicCheck_stateChanged ==
  /\ italicCheck' = ~italicCheck
  /\ UNCHANGED <<sizeEdit, boldCheck>>
  /\ update_font_settings(sizeEdit, boldCheck, ~italicCheck)

(***************************************************************************)
(* on_file_clicked and load_font.                                          *)
(***************************************************************************)
\* z.namelist()
namelist(z) == [i \in 1..Len(z.entries) |-> z.entries[i].name]

\* font_names without the lower()
font_names_case_sensitive(names) ==
  SelectSeq(names, LAMBDA n : endswith(n, FONT_EXTS))

\* the list `fonts` of on_file_clicked
font_names(names) == SelectSeq(names, LAMBDA n : endswith(lower(n), FONT_EXTS))

\* z.read(name): the member of that name (the last one, should several share it)
zip_read(z, name) ==
  LET hits == { i \in 1..Len(z.entries) : z.entries[i].name = name }
  IN z.entries[CHOOSE i \in hits : \A j \in hits : j <= i].data

\* tempfile.NamedTemporaryFile(delete=False, suffix=...) once written and closed
NamedTemporaryFile(suffix, data) == [suffix |-> suffix, data |-> data]

\* QFontDatabase.addApplicationFont on a font file: the id of the new
\* application font, the first one free (none is ever removed)
addApplicationFont(fonts) == Cardinality(fonts)

\* load_font(path) for a file of content `data`; temps is the value of tempFiles
\* when it is called
load_font(data, temps) ==
  /\ tempFiles' = temps
  /\ UNCHANGED <<sizeEdit, boldCheck, italicCheck, currentFontSize>>
  /\ IF ~data.isFont
     THEN \* fid < 0
          /\ previewLayout' = take_all(previewLayout)
          /\ last' = Did("Failed to load font.", TRUE, data, FALSE)
          /\ UNCHANGED <<currentFont, textEditFont, appFonts>>
     ELSE /\ appFonts' = appFonts \cup {addApplicationFont(appFonts)}
          /\ IF data.fams = <<>>
             THEN /\ previewLayout' = take_all(previewLayout)
                  /\ last' = Did("No font family found.", TRUE, data, FALSE)
                  /\ UNCHANGED <<currentFont, textEditFont>>
             ELSE LET font == apply_style_flags(QFont(data.fams[1], currentFontSize),
                                                boldCheck, italicCheck)
                  IN /\ currentFont' = font
                     /\ previewLayout' = render_preview(take_all(previewLayout), font)
                     /\ textEditFont' = font
                     /\ last' = Did("", TRUE, data, TRUE)

\* on_file_clicked(item) for the item of file f
on_file_clicked(f) ==
  IF endswith1(lower(f.name), ARCHIVE_EXT)
  THEN IF ~f.data.isZip
       THEN \* zipfile.BadZipFile
            /\ last' = Did("Invalid ZIP archive", FALSE, NoData, FALSE)
            /\ UNCHANGED <<sizeEdit, boldCheck, italicCheck, currentFont,
                           currentFontSize, previewLayout, textEditFont,
                           appFonts, tempFiles>>
       ELSE LET fonts == font_names(namelist(f.data))
            IN IF fonts = <<>>
               THEN /\ last' = Did("no fonts in here", FALSE, NoData, FALSE)
                    /\ UNCHANGED <<sizeEdit, boldCheck, italicCheck, currentFont,
                                   currentFontSize, previewLayout, textEditFont,
                                   appFonts, tempFiles>>
               ELSE LET data == zip_read(f.data, fonts[1])
                        tmp  == NamedTemporaryFile(splitext1(fonts[1]), data)
                    IN load_font(data, Append(tempFiles, tmp))
  ELSE load_font(f.data, tempFiles)

\* an item of the file list is clicked
fileList_itemClicked ==
  /\ Cardinality(appFonts) < MaxAppFonts
  /\ \E f \in fileList : on_file_clicked(f)

Next ==
  \/ \E text \in SizeTexts : sizeEdit_editingFinished(text)
  \/ boldCheck_stateChanged
  \/ italicCheck_stateChanged
  \/ fileList_itemClicked

Spec == Init /\ [][Next]_vars

(***************************************************************************)
(* The claims.                                                             *)
(***************************************************************************)
\* a click in the file list that ended in one of the four load errors
FailedLoadAttempt ==
  /\ fileList_itemClicked
  /\ last'.message \in {"Failed to load font.", "No font family found.",
                        "Invalid ZIP archive", "no fonts in here"}

\* C1: a load attempt that fails (unparsable font, font without a family,
\* invalid zip, zip without a font) leaves the active font and the preview
\* grid exactly as they were before the attempt.
C1_FailedLoadKeepsFontAndGrid ==
  [][FailedLoadAttempt =>
       /\ currentFont' = currentFont
       /\ widgets(previewLayout') = widgets(previewLayout)]_vars

\* C6: after any sequence of font loads at most one loaded font is registered
\* with the font database (a load releases the font loaded before it).
C6_AtMostOneRegisteredFont == Cardinality(appFonts) <= 1

\* C7: every temporary copy of a font taken out of a zip archive is released
\* by the end of the load that made it, whether the load succeeded or failed:
\* between two handlers no temporary file is left.
C7_NoTemporaryFileLeft == tempFiles = <<>>

\* the number the size field shows is a positive integer
SizeShownIsPositive == int(sizeEdit).ok /\ int(sizeEdit).val > 0

\* the glyph cells of the layout that show a glyph
ShownGlyphs ==
  LET w == widgets(previewLayout)
  IN { w[k] : k \in { i \in DOMAIN w : w[i].kind = "gly" /\ w[i].text # "" } }

\* C10: whenever a grid has been built, the font of its glyph cells has the
\* point size the size field shows (if that is a positive integer) and the
\* bold and italic flags of the two check boxes, from the initial state on.
C10_GlyphFontFollowsControls ==
  (previewLayout # <<>> /\ SizeShownIsPositive) =>
     \A g \in ShownGlyphs :
        /\ g.font.pointSize = int(sizeEdit).val
        /\ g.font.bold = boldCheck
        /\ g.font.italic = italicCheck

\* the size texts that are an integer below 1
NonPositiveTexts == { t \in SizeTexts : int(t).ok /\ int(t).val <= 0 }

\* a size update carrying a non-positive value
NonPositiveSizeUpdate == \E t \in NonPositiveTexts : sizeEdit_editingFinished(t)

PreviewedCodes ==
  (ASCII_RANGE.start .. ASCII_RANGE.stop - 1)
    \cup (EXTENDED_RANGE.start .. EXTENDED_RANGE.stop - 1)

\* the font has a glyph for none of the previewed code points
SupportsNone(font) == \A code \in PreviewedCodes : ~inFontUcs4(font, code)

\* C3 as stated: the grid built for a font that supports none of the
\* previewed code points is the single cell "no characters in file".
C3_SingleInformationalCell ==
  (previewLayout # <<>> /\ SupportsNone(currentFont)) =>
     LET w == widgets(previewLayout)
     IN /\ Len(w) = 1
        /\ w[1].text = "no characters in file"
        /\ w[1].kind \notin {"ref", "gly"}

\* C3 as amended: the grid built for such a font has no informational cell:
\* it has the separator and, for every previewed code point, its label cell
\* and an empty glyph cell.
C3_FullGridOfEmptyGlyphs ==
  (previewLayout # <<>> /\ SupportsNone(currentFont)) =>
     LET w == widgets(previewLayout)
         cells(kind) == { k \in DOMAIN w : w[k].kind = kind }
     IN /\ \A k \in DOMAIN w : w[k].kind \in {"ref", "gly", "sep"}
        /\ Cardinality(cells("sep")) = 1
        /\ Cardinality(cells("ref")) = Cardinality(PreviewedCodes)
        /\ Cardinality(cells("gly")) = Cardinality(PreviewedCodes)
        /\ { w[k].code : k \in cells("ref") } = PreviewedCodes
        /\ { w[k].code : k \in cells("gly") } = PreviewedCodes
        /\ \A k \in cells("gly") : w[k].text = ""
        /\ \A k \in DOMAIN w : w[k].text # "no characters in file"

\* C3's case: a grid built for Zeta, which has none of the code points.
C3_Witness ==
  /\ previewLayout # <<>>
  /\ currentFont.family = "Zeta"
  /\ SupportsNone(currentFont)
  /\ last.rendered

\* the number of rows a range of n code points takes: a label row and a glyph
\* row for every ten code points or part of ten
RowsOf(n) == 2 * ((n + 9) \div 10)

\* the claim's place of a cell: its kind, code point, row, column and spans
Slot(kind, code, row, col, rowSpan, colSpan) ==
  <<kind, code, row, col, rowSpan, colSpan>>

\* the label and glyph cells C4 expects of a range whose first row is base
ExpectedPairs(range, base) ==
  UNION { { Slot("ref", range.start + i, base + 2 * (i \div 10), i % 10, 1, 1),
            Slot("gly", range.start + i, base + 2 * (i \div 10) + 1, i % 10, 1, 1) }
          : i \in 0..(len(range) - 1) }

\* the grid C4 expects: the first range from row 0, one separator row across
\* the ten columns, the second range from the row after it
ExpectedGrid ==
  ExpectedPairs(ASCII_RANGE, 0)
    \cup { Slot("sep", 0, RowsOf(len(ASCII_RANGE)), 0, 1, 10) }
    \cup ExpectedPairs(EXTENDED_RANGE, RowsOf(len(ASCII_RANGE)) + 1)

\* the slots of the cells of a grid
Slots(w) ==
  { Slot(w[k].kind, w[k].code, w[k].row, w[k].col, w[k].rowSpan, w[k].colSpan)
    : k \in DOMAIN w }

\* the rows in which a grid has a label or glyph cell of the range
RowsUsed(grid, range) ==
  { s[3] : s \in { t \in grid : /\ t[1] \in {"ref", "gly"}
                                /\ t[2] >= range.start
                                /\ t[2] < range.stop } }

\* the label cells a grid has in a row
LabelsInRow(grid, row) == { s \in grid : s[1] = "ref" /\ s[3] = row }

\* What C4 says of the rows, of a grid given by its slots: a range of n code
\* points takes exactly 2 * ceil(n / 10) rows, the separator row lies between
\* the two ranges and holds nothing else, and printable ASCII gives 95 pairs
\* in 10 visual rows, the last of 5 cells.
RowsAsClaimed(grid) ==
  /\ RowsUsed(grid, ASCII_RANGE) = 0..(RowsOf(95) - 1)
  /\ RowsUsed(grid, EXTENDED_RANGE) =
       (RowsOf(95) + 1)..(RowsOf(95) + RowsOf(len(EXTENDED_RANGE)))
  /\ \A s \in grid : s[3] = RowsOf(95) => (s[1] = "sep" /\ s[6] = 10)
  /\ Cardinality({ s \in grid : s[1] = "ref" /\ s[2] < 127 }) = 95
  /\ Cardinality({ s \in grid : s[1] = "gly" /\ s[2] < 127 }) = 95
  /\ \A v \in 0..8 : Cardinality(LabelsInRow(grid, 2 * v)) = 10
  /\ Cardinality(LabelsInRow(grid, 18)) = 5

\* C4: in every built grid the i-th code point of a range has its label at
\* row base + 2 * (i div 10), column i mod 10, and its glyph cell one row
\* below in the same column, supported or not; a range of n code points takes
\* exactly 2 * ceil(n / 10) rows, one full-width separator row lies between
\* the ranges, no two cells share a slot, and printable ASCII gives 95 pairs
\* in 10 visual rows, the last of 5 cells.
C4_GridLayout ==
  previewLayout # <<>> =>
     LET w    == widgets(previewLayout)
         grid == Slots(w)
     IN /\ grid = ExpectedGrid
        /\ Cardinality({ <<w[k].row, w[k].col>> : k \in DOMAIN w }) = Len(w)
        /\ RowsAsClaimed(grid)

\* C4's case: a grid built for Alfa, which lacks every odd code point above
\* 126, so that supported and unsupported glyph cells both occur.
C4_Witness ==
  /\ previewLayout # <<>>
  /\ currentFont.family = "Alfa"
  /\ \E code \in PreviewedCodes : inFontUcs4(currentFont, code)
  /\ \E code \in PreviewedCodes : ~inFontUcs4(currentFont, code)

\* no font has been loaded successfully yet: the font is still the default's
NoActiveFont == currentFont.family = QApplication_font.family

\* a change of the size, of Bold or of Italic
StyleChange ==
  \/ \E t \in SizeTexts : sizeEdit_editingFinished(t)
  \/ boldCheck_stateChanged
  \/ italicCheck_stateChanged

\* the style controls' values are in currentFont
StyleRecorded(font, size, bold, italic) ==
  font.pointSize = size /\ font.bold = bold /\ font.italic = italic

\* C5 as stated: with no active font a change of size, bold or italic is
\* recorded but rebuilds nothing: the grid stays the empty initial grid.
C5_NoFontNoRebuild ==
  [][(NoActiveFont /\ StyleChange) =>
       /\ StyleRecorded(currentFont', currentFontSize', boldCheck', italicCheck')
       /\ ~last'.rendered
       /\ widgets(previewLayout') = <<>>]_vars

\* C5 as amended: with no font loaded yet the active font is the application's
\* default font; a change of size, bold or italic is recorded and rebuilds the
\* grid with that font, so the grid is empty only until the first such change
\* or successful load.
C5_NoFontRebuildsWithDefault ==
  [][(NoActiveFont /\ StyleChange) =>
       /\ StyleRecorded(currentFont', currentFontSize', boldCheck', italicCheck')
       /\ currentFont'.family = QApplication_font.family
       /\ last'.rendered
       /\ previewLayout' = <<currentFont'>>]_vars

\* C5's case: Bold was ticked before any file was clicked, and a grid exists.
C5_Witness ==
  /\ NoActiveFont
  /\ appFonts = {}
  /\ ~last.loadCalled
  /\ boldCheck
  /\ last.rendered
  /\ previewLayout # <<>>

\* the name ends in .ttf or .otf, in any mix of upper and lower case
IsFontName(n) ==
  /\ Len(n) >= 4
  /\ n[Len(n) - 3] = "."
  /\ \/ n[Len(n) - 2] \in {"t", "T"} /\ n[Len(n) - 1] \in {"t", "T"}
     \/ n[Len(n) - 2] \in {"o", "O"} /\ n[Len(n) - 1] \in {"t", "T"}
  /\ n[Len(n)] \in {"f", "F"}

\* the places of an archive's listing that hold a font entry
FontEntries(z) == { i \in 1..Len(z.entries) : IsFontName(z.entries[i].name) }

\* the items of the file list that are zip archives by name
ZipItems ==
  { f \in fileList :
      /\ Len(f.name) >= 4
      /\ f.name[Len(f.name) - 3] = "."
      /\ f.name[Len(f.name) - 2] \in {"z", "Z"}
      /\ f.name[Len(f.name) - 1] \in {"i", "I"}
      /\ f.name[Len(f.name)] \in {"p", "P"} }

\* nothing but the record of the last handler changes
NothingLoaded ==
  /\ ~last'.loadCalled
  /\ UNCHANGED <<currentFont, previewLayout, textEditFont, appFonts, tempFiles>>

PositiveTexts == { t \in SizeTexts : int(t).ok /\ int(t).val > 0 }

\* C9 as stated: the size update itself enforces the upper bound: 500 is
\* accepted and becomes the current size, 501 is rejected and leaves it as
\* it was.
C9_CoreRejectsAbove500 ==
  [][/\ sizeEdit_editingFinished(<<"5", "0", "0">>) => currentFontSize' = 500
     /\ \A t \in PositiveTexts :
          (int(t).val > 500 /\ sizeEdit_editingFinished(t)) =>
             currentFontSize' = currentFontSize]_vars

\* C9 as amended: the size update enforces no upper bound: 500 is accepted
\* and becomes the current size, and so is 501 when it reaches the update.
C9_CoreAcceptsAnyPositiveSize ==
  [][\A t \in PositiveTexts :
       sizeEdit_editingFinished(t) =>
          /\ currentFontSize' = int(t).val
          /\ currentFont'.pointSize = int(t).val]_vars

\* C9's case: 501 reached the update and is the current size.
C9_Witness ==
  /\ sizeEdit = <<"5", "0", "1">>
  /\ currentFontSize = 501
  /\ currentFont.pointSize = 501
  /\ last.rendered

====
